---------------------------- MODULE Spec2Model ----------------------------
(***************************************************************************)
(* Model of src/src/dashboard.py: the Streamlit dashboard script that      *)
(* filters a corpus of labelled articles and derives headline metrics, the *)
(* election rank shift, the top-k topic lists, the time series, the        *)
(* heatmap and the article explorer lookup.                                *)
(*                                                                         *)
(* The script is re-run from top to bottom after every widget interaction; *)
(* one action of the model is one interaction followed by the whole        *)
(* re-run.                                                                 *)
(*                                                                         *)
(* Conventions of the encoding                                             *)
(*  - a data frame is a sequence of records (row order = frame order);     *)
(*  - topic labels and dates are natural numbers whose numeric order is    *)
(*    the sort order of the labels (alphabetical for topic_name);          *)
(*  - pandas ranks are multiples of 1/2 (method="average"); every rank     *)
(*    field ending in 2 holds TWICE the pandas value;                      *)
(*  - pandas sort_values / value_counts use kind="quicksort", which is not *)
(*    a stable sort: the order of rows with equal keys is not fixed by the *)
(*    code, so the operators that model them return the SET of outcomes.   *)
(***************************************************************************)
EXTENDS Integers, Sequences, FiniteSets, TLC

VARIABLES
    df,                \* the loaded corpus (line 54), never modified
    selected_sources,  \* sidebar multiselect "Organisation" (line 61)
    selected_topics,   \* sidebar multiselect "Topic" (line 67)
    selected_period,   \* sidebar multiselect "Election period" (line 73)
    df_filt,           \* the filtered frame of the last run (line 79)
    selected_topic,    \* article explorer selectbox "Topic" (line 223)
    selected_id,       \* article explorer selectbox "Article" (line 230)
    text               \* outcome of the lookup of the last run (line 235)

vars == <<df, selected_sources, selected_topics, selected_period,
          df_filt, selected_topic, selected_id, text>>

---------------------------------------------------------------------------
(* Bounds of the explored corpora *)

\* most records of a corpus of the general family
MaxRecords == 3
\* most records of a corpus of the rank-shift family
MaxRankRecords == 4
\* number of topics of the corpora of the wide (top-k) family
NWideTopics == 11

---------------------------------------------------------------------------
(* Program constants *)

\* value of an st.selectbox whose options are empty (Python None)
None == 0
\* head(6) of line 147
TopN == 6
\* head(10) of line 208
TopTable == 10

PRE  == "pre_election"
POST == "post_election"
\* a period label of the corpus other than the two hard-coded ones
OTHER_PERIOD == "election_week"

---------------------------------------------------------------------------
(* Generic helpers on sequences and sets *)

Range(s) == {s[i] : i \in 1..Len(s)}

Min2(a, b) == IF a <= b THEN a ELSE b

RECURSIVE SumSet(_, _)
\* sum of f[x] over the finite set S
SumSet(f, S) ==
    IF S = {} THEN 0
    ELSE LET x == CHOOSE y \in S : TRUE
         IN  f[x] + SumSet(f, S \ {x})

\* Series.unique(): the distinct values of a column in order of appearance
Unique(col) ==
    LET first == {i \in 1..Len(col) : \A j \in 1..(i-1) : col[j] # col[i]}
    IN  [k \in 1..Cardinality(first) |->
            col[CHOOSE i \in first : Cardinality({j \in first : j <= i}) = k]]

\* df["source"], df["topic_name"], df["election_period"]
SourceCol(d) == [i \in 1..Len(d) |-> d[i].source]
TopicCol(d)  == [i \in 1..Len(d) |-> d[i].topic_name]
PeriodCol(d) == [i \in 1..Len(d) |-> d[i].election_period]

\* len(frame[frame[col] == v])
CountWhere(d, P(_)) == Cardinality({i \in 1..Len(d) : P(d[i])})

---------------------------------------------------------------------------
(* The filter, lines 79-83 *)

\* the three tests joined by "or"
FilterAnyOf(d, ss, st, sp) ==
    SelectSeq(d, LAMBDA r : \/ r.source \in ss
                            \/ r.topic_name \in st
                            \/ r.election_period \in sp)

Filter(d, ss, st, sp) ==
    SelectSeq(d, LAMBDA r : /\ r.source \in ss
                            /\ r.topic_name \in st
                            /\ r.election_period \in sp)

---------------------------------------------------------------------------
(* Headline metrics, lines 102-104 *)

\* len(df_filt)
NArticles(d) == Len(d)
\* df_filt["topic_name"].nunique()
NTopics(d) == Cardinality({d[i].topic_name : i \in 1..Len(d)})
\* df_filt["source"].nunique()
NOrganisations(d) == Cardinality({d[i].source : i \in 1..Len(d)})

---------------------------------------------------------------------------
(* Election shift, lines 110-136 *)

\* rank = df_filt.groupby(["election_period", "topic_name"]).size()
\*            .reset_index(name="n"): one row per pair that occurs in d
RankTable(d) ==
    { [election_period |-> k[1], topic_name |-> k[2],
       n |-> CountWhere(d, LAMBDA r : r.election_period = k[1] /\ r.topic_name = k[2])] :
      k \in {<<d[i].election_period, d[i].topic_name>> : i \in 1..Len(d)} }

\* "==" for "<=": the two periods and no other
OnlyBothPeriods(rank) == {PRE, POST} = {row.election_period : row \in rank}

\* {"pre_election", "post_election"} <= set(rank["election_period"])
BothPeriods(rank) == {PRE, POST} \subseteq {row.election_period : row \in rank}

\* rank.pivot(index="topic_name", columns="election_period", values="n")
\*     .fillna(0): a row for every topic of rank, a column for every period
\* of rank, 0 where rank has no row for the pair
Pivot(rank) ==
    [t \in {row.topic_name : row \in rank} |->
        [p \in {row.election_period : row \in rank} |->
            IF \E row \in rank : row.topic_name = t /\ row.election_period = p
            THEN (CHOOSE row \in rank :
                      row.topic_name = t /\ row.election_period = p).n
            ELSE 0]]

\* method="min": competition ranking, 1 + the number of greater values; doubled
Rank2Min(pivot, p, t) ==
    2 * (Cardinality({u \in DOMAIN pivot : pivot[u][p] > pivot[t][p]}) + 1)

\* column.rank(ascending=False), default method="average": a row's rank is
\* the mean of the positions its tie group takes in descending order,
\* (number of greater values) + (size of its tie group + 1) / 2; doubled.
Rank2(pivot, p, t) ==
    LET idx     == DOMAIN pivot
        greater == Cardinality({u \in idx : pivot[u][p] > pivot[t][p]})
        equal   == Cardinality({u \in idx : pivot[u][p] = pivot[t][p]})
    IN  2 * greater + equal + 1

\* pivot["rank_change"] = pivot["rank_pre"] - pivot["rank_post"]; doubled
RankChange2(pivot, t) == Rank2(pivot, PRE, t) - Rank2(pivot, POST, t)

\* round(x) of a float given doubled: halves rounded up
RoundOf2(x2) == (x2 + 1) \div 2

\* int(x) of a float given doubled: truncation towards zero
IntOf2(x2) == IF x2 >= 0 THEN x2 \div 2 ELSE -((-x2) \div 2)

\* ascending=True: a row of the least rank_change
TopMoverAscending(pivot) ==
    {t \in DOMAIN pivot : \A u \in DOMAIN pivot :
        RankChange2(pivot, t) <= RankChange2(pivot, u)}

\* pivot.sort_values("rank_change", ascending=False).head(1): a row of the
\* greatest rank_change; which one among equal rows the sort does not fix
TopMover(pivot) ==
    {t \in DOMAIN pivot : \A u \in DOMAIN pivot :
        RankChange2(pivot, t) >= RankChange2(pivot, u)}

\* The outcomes of the "Election shift" block: the st.metric with the top
\* mover's topic and the delta f"+{int(rank_change)}", or the st.info.
ElectionShift(d) ==
    LET rank  == RankTable(d)
        pivot == Pivot(rank)
    IN  IF BothPeriods(rank)
        THEN { [kind |-> "metric", topic |-> t,
                rank_change2 |-> RankChange2(pivot, t),
                delta |-> IntOf2(RankChange2(pivot, t))] : t \in TopMover(pivot) }
        ELSE { [kind |-> "info", topic |-> None, rank_change2 |-> 0, delta |-> 0] }

---------------------------------------------------------------------------
(* Top topics, lines 144-149 and 205-211 *)

\* the number of rows of d for each topic that occurs in d
TopicCounts(d) ==
    [t \in {d[i].topic_name : i \in 1..Len(d)} |->
        CountWhere(d, LAMBDA r : r.topic_name = t)]

\* the orders in which the keys G can be listed
Perms(G) ==
    {f \in [1..Cardinality(G) -> G] : \A i, j \in 1..Cardinality(G) : i # j => f[i] # f[j]}

RECURSIVE SortFrom(_, _, _)
\* the sorted prefixes acc, each continued by the keys S in descending
\* order of count: the keys of the greatest count first, in any order
SortFrom(cnt, S, acc) ==
    IF S = {} THEN acc
    ELSE LET top == {x \in S : \A y \in S : cnt[x] >= cnt[y]}
         IN  SortFrom(cnt, S \ top,
                 { a \o [i \in 1..Len(p) |-> [topic_name |-> p[i], count |-> cnt[p[i]]]] :
                   a \in acc, p \in Perms(top) })

\* the orders of the keys S by descending count a sort may produce
SortDesc(cnt, S) == SortFrom(cnt, S, {<<>>})

\* df_filt["topic_name"].value_counts(): one row per topic, by descending
\* count
ValueCounts(d) == SortDesc(TopicCounts(d), DOMAIN TopicCounts(d))

\* one row too many
HeadKPlusOne(s, k) == SubSeq(s, 1, Min2(k + 1, Len(s)))

\* .head(k)
HeadK(s, k) == SubSeq(s, 1, Min2(k, Len(s)))

\* top_topics = value_counts().head(6).index
TopTopics(d) == { [i \in 1..Len(HeadK(s, TopN)) |-> HeadK(s, TopN)[i].topic_name] :
                  s \in ValueCounts(d) }

\* top_topics_df = value_counts().head(10).reset_index()
TopTopicsDf(d) == { HeadK(s, TopTable) : s \in ValueCounts(d) }

---------------------------------------------------------------------------
(* Time series and heatmap, lines 151-156 and 179-184 *)

\* without the isin(top_topics) restriction
TimeDfAllTopics(d, top_topics) ==
    { [date |-> k[1], topic_name |-> k[2],
       n_articles |-> CountWhere(d, LAMBDA r : r.date = k[1] /\ r.topic_name = k[2])] :
      k \in {<<d[i].date, d[i].topic_name>> : i \in 1..Len(d)} }

\* df_filt[df_filt["topic_name"].isin(top_topics)]
\*     .groupby(["date", "topic_name"]).size().reset_index(name="n_articles")
TimeDf(d, top_topics) ==
    LET kept == SelectSeq(d, LAMBDA r : r.topic_name \in Range(top_topics))
    IN  { [date |-> k[1], topic_name |-> k[2],
           n_articles |-> CountWhere(kept, LAMBDA r : r.date = k[1] /\ r.topic_name = k[2])] :
          k \in {<<kept[i].date, kept[i].topic_name>> : i \in 1..Len(kept)} }

\* a dense matrix: a row for every source and every topic of d
HeatDfDense(d) ==
    { [source |-> k[1], topic_name |-> k[2],
       n_articles |-> CountWhere(d, LAMBDA r : r.source = k[1] /\ r.topic_name = k[2])] :
      k \in {d[i].source : i \in 1..Len(d)} \X {d[i].topic_name : i \in 1..Len(d)} }

\* df_filt.groupby(["source", "topic_name"]).size()
\*     .reset_index(name="n_articles")
HeatDf(d) ==
    { [source |-> k[1], topic_name |-> k[2],
       n_articles |-> CountWhere(d, LAMBDA r : r.source = k[1] /\ r.topic_name = k[2])] :
      k \in {<<d[i].source, d[i].topic_name>> : i \in 1..Len(d)} }

---------------------------------------------------------------------------
(* Article explorer, lines 223-238 *)

\* options of the selectbox "Topic": df_filt["topic_name"].unique()
TopicOptions(d) == Unique(TopicCol(d))

\* subset = df_filt[df_filt["topic_name"] == selected_topic]
Subset(d, t) == SelectSeq(d, LAMBDA r : r.topic_name = t)

\* options of the selectbox "Article": subset["article_id"].values
ArticleOptions(d, t) ==
    LET subset == Subset(d, t)
    IN  [i \in 1..Len(subset) |-> subset[i].article_id]

\* st.selectbox: the first option by default, None when there is no option
FirstOption(opts) == IF opts = <<>> THEN None ELSE opts[1]

\* A selectbox keeps the user's choice while its options are the same and
\* is a new widget, back at its first option, when they have changed.
Selectbox(oldOpts, newOpts, old) ==
    IF newOpts = oldOpts THEN old ELSE FirstOption(newOpts)

\* subset.loc[subset["article_id"] == selected_id, "text_clean"].iloc[0]:
\* .iloc[0] of an empty selection raises IndexError, which nothing catches
Lookup(d, t, id) ==
    LET hits == SelectSeq(Subset(d, t), LAMBDA r : r.article_id = id)
    IN  IF hits = <<>>
        THEN [kind |-> "IndexError", value |-> <<>>]
        ELSE [kind |-> "text_area",  value |-> hits[1].text_clean]

---------------------------------------------------------------------------
(* One run of the script *)

\* The run after the sidebar selections became ss, st, sp.
Rerun(ss, st, sp) ==
    /\ selected_sources' = ss
    /\ selected_topics' = st
    /\ selected_period' = sp
    /\ df_filt' = Filter(df, ss, st, sp)
    /\ selected_topic' = Selectbox(TopicOptions(df_filt), TopicOptions(df_filt'),
                                   selected_topic)
    /\ selected_id' = Selectbox(ArticleOptions(df_filt, selected_topic),
                                ArticleOptions(df_filt', selected_topic'),
                                selected_id)
    /\ text' = Lookup(df_filt', selected_topic', selected_id')
    /\ UNCHANGED df

Toggle(S, x) == IF x \in S THEN S \ {x} ELSE S \cup {x}

\* the user adds or removes one organisation in the multiselect of line 61
ToggleSource ==
    \E s \in Range(Unique(SourceCol(df))) :
        Rerun(Toggle(selected_sources, s), selected_topics, selected_period)

\* the user adds or removes one topic in the multiselect of line 67
ToggleTopic ==
    \E t \in Range(Unique(TopicCol(df))) :
        Rerun(selected_sources, Toggle(selected_topics, t), selected_period)

\* the user adds or removes one period in the multiselect of line 73
TogglePeriod ==
    \E p \in Range(Unique(PeriodCol(df))) :
        Rerun(selected_sources, selected_topics, Toggle(selected_period, p))

\* the user picks a topic in the selectbox of line 223
SelectTopic ==
    \E t \in Range(TopicOptions(df_filt)) :
        /\ t # selected_topic
        /\ selected_topic' = t
        /\ selected_id' = FirstOption(ArticleOptions(df_filt, t))
        /\ text' = Lookup(df_filt, t, selected_id')
        /\ UNCHANGED <<df, selected_sources, selected_topics, selected_period, df_filt>>

\* the user picks an article in the selectbox of line 230
SelectArticle ==
    \E i \in Range(ArticleOptions(df_filt, selected_topic)) :
        /\ i # selected_id
        /\ selected_id' = i
        /\ text' = Lookup(df_filt, selected_topic, i)
        /\ UNCHANGED <<df, selected_sources, selected_topics, selected_period,
                       df_filt, selected_topic>>

Next ==
    \/ ToggleSource
    \/ ToggleTopic
    \/ TogglePeriod
    \/ SelectTopic
    \/ SelectArticle

---------------------------------------------------------------------------
(* Corpora and initial states *)

\* the row the loader yields for the i-th line of the file
Row(i, s, t, p, dt) ==
    [article_id |-> i, source |-> s, topic_name |-> t, election_period |-> p,
     date |-> dt, text_clean |-> <<"text", i>>]

\* All corpora of 1 to maxn rows over the given column domains (each a
\* sequence).  article_id is the row number, so ids are unique.  Rows are
\* listed in non-decreasing order of their kind: one corpus per multiset.
Corpora(srcs, tops, pers, dts, maxn) ==
    LET ns == Len(srcs)
        nt == Len(tops)
        np == Len(pers)
        nd == Len(dts)
        NK == ns * nt * np * nd
        Mk(i, k) == Row(i, srcs[(k % ns) + 1],
                           tops[((k \div ns) % nt) + 1],
                           pers[((k \div (ns * nt)) % np) + 1],
                           dts[((k \div (ns * nt * np)) % nd) + 1])
        Sorted(f, n) == \A i \in 1..(n-1) : f[i] <= f[i+1]
    IN  UNION { { [i \in 1..n |-> Mk(i, f[i])] :
                    f \in {g \in [1..n -> 0..(NK-1)] : Sorted(g, n)} } :
                n \in 1..maxn }

\* first run of the script on corpus d: every multiselect defaults to all
\* the values of its column (lines 64, 70, 76)
InitOn(C) ==
    /\ df \in C
    /\ selected_sources = Range(Unique(SourceCol(df)))
    /\ selected_topics = Range(Unique(TopicCol(df)))
    /\ selected_period = Range(Unique(PeriodCol(df)))
    /\ df_filt = Filter(df, selected_sources, selected_topics, selected_period)
    /\ selected_topic = FirstOption(TopicOptions(df_filt))
    /\ selected_id = FirstOption(ArticleOptions(df_filt, selected_topic))
    /\ text = Lookup(df_filt, selected_topic, selected_id)

GeneralCorpora ==
    Corpora(<<"dfe", "ofsted">>, <<1, 2>>, <<PRE, POST, OTHER_PERIOD>>, <<1>>,
            MaxRecords)

Init == InitOn(GeneralCorpora)

Spec == Init /\ [][Next]_vars

\* corpora of one organisation and three topics, for the election shift
RankCorpora ==
    Corpora(<<"dfe">>, <<1, 2, 3>>, <<PRE, POST, OTHER_PERIOD>>, <<1>>,
            MaxRankRecords)

InitRank == InitOn(RankCorpora)

SpecRank == InitRank /\ [][Next]_vars

\* steps of the article counts of the wide corpora: within a corpus of step
\* m, topic t has (t + m - 1) \div m articles, so m topics share each count
\* and the cut of either head() falls inside a group of equal counts
WideSteps == {3}

\* A corpus of NWideTopics topics, more than either head() keeps: the
\* articles of a topic alternate between two dates.
WideDf(m) ==
    LET F[t \in 0..NWideTopics] ==
            IF t = 0 THEN <<>>
            ELSE F[t-1] \o [j \in 1..((t + m - 1) \div m) |-> <<t, j>>]
        keys == F[NWideTopics]
    IN  [i \in 1..Len(keys) |->
            Row(i, "dfe", keys[i][1], PRE, 1 + (keys[i][2] % 2))]

WideCorpora == {WideDf(m) : m \in WideSteps}

InitWide == InitOn(WideCorpora)

\* The top-k lists and the time series are computed from the filtered frame
\* alone: the wide corpora are explored through the sidebar, the explorer's
\* selectboxes staying at the option each run gives them.
NextSidebar ==
    \/ ToggleSource
    \/ ToggleTopic
    \/ TogglePeriod

SpecWide == InitWide /\ [][NextSidebar]_vars

---------------------------------------------------------------------------
(* Properties of the filter, the election-shift guard, the aggregates and *)
(* the article lookup, checked under Spec                                  *)

\* rows of the corpus that pass all three membership tests
Matching == {i \in 1..Len(df) : /\ df[i].source \in selected_sources
                                /\ df[i].topic_name \in selected_topics
                                /\ df[i].election_period \in selected_period}

\* C1: the filtered subset is exactly the records whose source, topic_name
\* and election_period each belong to the corresponding selection; an empty
\* selection in any dimension gives the empty subset.
FilterIsConjunction ==
    /\ Len(df_filt) = Cardinality(Matching)
    /\ Range(df_filt) = {df[i] : i \in Matching}
    /\ \A i, j \in 1..Len(df_filt) :
           i < j => df_filt[i].article_id < df_filt[j].article_id
    /\ (selected_sources = {} \/ selected_topics = {} \/ selected_period = {})
           => df_filt = <<>>

\* C1 witness: a non-empty corpus, one selection emptied, the others full
FilterEmptySelectionReached ==
    /\ Len(df) = MaxRecords
    /\ selected_sources = {}
    /\ selected_topics # {}
    /\ selected_period # {}
    /\ df_filt = <<>>

\* number of rows of the subset under period p
InPeriod(p) == Cardinality({i \in 1..Len(df_filt) : df_filt[i].election_period = p})

\* C2: the election shift reports "insufficient data" exactly when the
\* subset has no pre_election record or no post_election record, whatever
\* other periods it holds; otherwise it reports a biggest riser.
InsufficientIffPeriodMissing ==
    /\ ElectionShift(df_filt) # {}
    /\ \A o \in ElectionShift(df_filt) :
           /\ o.kind \in {"info", "metric"}
           /\ o.kind = "info" <=> (InPeriod(PRE) = 0 \/ InPeriod(POST) = 0)

\* C2 witness: records of pre_election and of a third period, none of
\* post_election, and no riser reported
InsufficientWithOtherPeriodReached ==
    /\ InPeriod(PRE) > 0
    /\ InPeriod(OTHER_PERIOD) > 0
    /\ InPeriod(POST) = 0
    /\ \A o \in ElectionShift(df_filt) : o.kind = "info"

\* C5: on an empty subset every output of the run is empty or zero, the
\* election shift reports insufficient data and the article lookup ends in
\* a handled NotFound, not in a failure.
EmptySubsetHandled ==
    df_filt = <<>> =>
        /\ NArticles(df_filt) = 0
        /\ NTopics(df_filt) = 0
        /\ NOrganisations(df_filt) = 0
        /\ ValueCounts(df_filt) = {<<>>}
        /\ TopTopicsDf(df_filt) = {<<>>}
        /\ \A top \in TopTopics(df_filt) : top = <<>> /\ TimeDf(df_filt, top) = {}
        /\ HeatDf(df_filt) = {}
        /\ \A o \in ElectionShift(df_filt) : o.kind = "info"
        /\ text.kind = "NotFound"

\* rows of the subset with the selected topic and the selected article id
Hits == {i \in 1..Len(df_filt) : /\ df_filt[i].topic_name = selected_topic
                                 /\ df_filt[i].article_id = selected_id}

\* C6: after any sequence of selections the lookup shows the text of the
\* subset's record with the selected topic and id, and ends in NotFound,
\* never in a failure, when no record of the subset matches both.
LookupTextOrNotFound ==
    /\ \A i \in Hits : text = [kind |-> "text_area", value |-> df_filt[i].text_clean]
    /\ Hits = {} => text.kind = "NotFound"

\* sum of the column n_articles of a set of rows
SumArticles(rows) == SumSet([row \in rows |-> row.n_articles], rows)

\* sum of the column count of a sequence of rows
SumCounts(s) == SumSet([i \in 1..Len(s) |-> s[i].count], 1..Len(s))

\* C9: the by-topic counts sum to the size of the subset, the heatmap
\* counts sum to the size of the subset, and the heatmap has a row only for
\* a (source, topic) pair that at least one record of the subset has.
AggregatesSumToSubset ==
    /\ \A s \in ValueCounts(df_filt) : SumCounts(s) = Len(df_filt)
    /\ SumArticles(HeatDf(df_filt)) = Len(df_filt)
    /\ \A row \in HeatDf(df_filt) :
           /\ row.n_articles >= 1
           /\ \E i \in 1..Len(df_filt) : /\ df_filt[i].source = row.source
                                         /\ df_filt[i].topic_name = row.topic_name
    /\ \A a, b \in HeatDf(df_filt) :
           (a.source = b.source /\ a.topic_name = b.topic_name) => a = b

\* C9 witness: two sources and two topics in the subset, one pair of them
\* without a record
SparseHeatmapReached ==
    /\ NOrganisations(df_filt) = 2
    /\ NTopics(df_filt) = 2
    /\ Cardinality(HeatDf(df_filt)) < 4

---------------------------------------------------------------------------
(* Properties of the election shift, checked under SpecRank               *)

\* topics with a record in the subset
SubsetTopics == {df_filt[i].topic_name : i \in 1..Len(df_filt)}

\* number of records of the subset with period p and topic t
N(p, t) == Cardinality({i \in 1..Len(df_filt) :
               df_filt[i].election_period = p /\ df_filt[i].topic_name = t})

\* topics with a record under pre_election or post_election in the subset
PrePostTopics == {t \in SubsetTopics : N(PRE, t) + N(POST, t) > 0}

\* the rank table of the run
ThePivot == Pivot(RankTable(df_filt))

\* a rank result is produced
Ranked == InPeriod(PRE) > 0 /\ InPeriod(POST) > 0

\* number of topics of T with more records than t under period p
Above(T, p, t) == Cardinality({u \in T : N(p, u) > N(p, t)})

\* number of topics of T with as many records as t under period p
Level(T, p, t) == Cardinality({u \in T : N(p, u) = N(p, t)})

\* C3 as stated: the ranked topics are the topics with a record under
\* pre_election or post_election, and each rank is 1 + the number of ranked
\* topics with a strictly greater count (competition ranking).
RanksAreCompetitionOverPrePost ==
    Ranked =>
        /\ DOMAIN ThePivot = PrePostTopics
        /\ \A t \in DOMAIN ThePivot : \A p \in {PRE, POST} :
               Rank2(ThePivot, p, t) = 2 * (1 + Above(DOMAIN ThePivot, p, t))

\* C3 amended: the ranked topics are all the topics of the subset (a topic
\* counts 0 in a period where it has no record), and each rank is the mean
\* of the positions of the topic's tie group: the number of ranked topics
\* with a greater count plus (size of the tie group + 1) / 2.  The ranks of
\* a period then sum to 1 + ... + number of ranked topics.
RanksAreAverageOverSubset ==
    Ranked =>
        /\ DOMAIN ThePivot = SubsetTopics
        /\ \A t \in DOMAIN ThePivot : \A p \in {PRE, POST} :
               /\ ThePivot[t][p] = N(p, t)
               /\ Rank2(ThePivot, p, t) =
                      2 * Above(SubsetTopics, p, t) + Level(SubsetTopics, p, t) + 1
        /\ \A p \in {PRE, POST} :
               SumSet([t \in DOMAIN ThePivot |-> Rank2(ThePivot, p, t)], DOMAIN ThePivot)
                   = Cardinality(SubsetTopics) * (Cardinality(SubsetTopics) + 1)

\* C3 witness: a rank result with a ranked topic that has records under the
\* third period only, and a tie that gives a fractional rank
FractionalRankAndOtherOnlyTopicReached ==
    /\ Ranked
    /\ \E t \in DOMAIN ThePivot : N(PRE, t) + N(POST, t) = 0
    /\ \E t \in DOMAIN ThePivot : Rank2(ThePivot, PRE, t) % 2 = 1

\* rank_change of topic t from the record counts; doubled
Change2(t) ==
    (2 * Above(SubsetTopics, PRE, t) + Level(SubsetTopics, PRE, t))
    - (2 * Above(SubsetTopics, POST, t) + Level(SubsetTopics, POST, t))

\* topics of the greatest rank_change
Risers == {t \in SubsetTopics : \A u \in SubsetTopics : Change2(t) >= Change2(u)}

\* the corpus of the example: 10 curriculum (1) and 2 funding (2) records
\* pre, 3 curriculum and 9 funding records post
ExampleDf ==
    [i \in 1..24 |->
        Row(i, "dfe",
            IF i <= 10 THEN 1 ELSE IF i <= 12 THEN 2 ELSE IF i <= 15 THEN 1 ELSE 2,
            IF i <= 12 THEN PRE ELSE POST, 1)]

\* C4 as stated: the reported riser has the greatest rank_change, the
\* reported magnitude is that rank_change, and among topics of equal
\* greatest rank_change the first in topic order is the one reported.
RiserIsFirstMaxWithExactMagnitude ==
    /\ \A o \in ElectionShift(df_filt) : o.kind = "metric" =>
           /\ o.topic \in Risers
           /\ 2 * o.delta = Change2(o.topic)
           /\ \A u \in Risers : o.topic <= u
    /\ ElectionShift(ExampleDf) =
           {[kind |-> "metric", topic |-> 2, rank_change2 |-> 2, delta |-> 1]}

\* C4 amended: the reported riser is one of the topics of the greatest
\* rank_change (any of them when several share it), and the reported
\* magnitude is that rank_change truncated to an integer (a rank_change of
\* 0.5 is reported as 0); the example gives funding with magnitude 1.
RiserIsSomeMaxWithTruncatedMagnitude ==
    /\ \A o \in ElectionShift(df_filt) : o.kind = "metric" =>
           /\ o.topic \in Risers
           /\ o.rank_change2 = Change2(o.topic)
           /\ 2 * o.delta <= Change2(o.topic)
           /\ Change2(o.topic) < 2 * o.delta + 2
    /\ ElectionShift(ExampleDf) =
           {[kind |-> "metric", topic |-> 2, rank_change2 |-> 2, delta |-> 1]}

\* C4 witness: a rank result where two topics share the greatest
\* rank_change and that rank_change is fractional
TiedFractionalRisersReached ==
    /\ Ranked
    /\ Cardinality(Risers) >= 2
    /\ \E t \in Risers : Change2(t) % 2 = 1

\* C10: the rank_change of the reported riser, and the magnitude shown
\* after the "+", is never negative.
RiserMagnitudeNonNegative ==
    \A o \in ElectionShift(df_filt) : o.kind = "metric" =>
        /\ o.rank_change2 >= 0
        /\ o.delta >= 0

\* C10 witness: a rank result where some topic fell (negative rank_change)
\* and another rose
RiserAndFallerReached ==
    /\ Ranked
    /\ \E t \in SubsetTopics : Change2(t) < 0
    /\ \E o \in ElectionShift(df_filt) : o.kind = "metric" /\ o.rank_change2 > 0

---------------------------------------------------------------------------
(* Properties of the top-k lists and the time series, checked under       *)
(* SpecWide                                                                *)

\* number of records of the subset with topic t
NTopic(t) == Cardinality({i \in 1..Len(df_filt) : df_filt[i].topic_name = t})

\* the number of records of each topic of the subset
SubsetCounts == [t \in SubsetTopics |-> NTopic(t)]

\* s lists min(k, number of topics) distinct topics of the subset by
\* non-increasing count n, none of them with fewer records than an unlisted
\* one
IsTopK(s, k, n) ==
    /\ Len(s) <= k
    /\ Len(s) = Min2(k, Cardinality(SubsetTopics))
    /\ \A i \in 1..Len(s) : s[i] \in SubsetTopics
    /\ \A i, j \in 1..Len(s) : i # j => s[i] # s[j]
    /\ \A i, j \in 1..Len(s) : i < j => n[s[i]] >= n[s[j]]
    /\ \A i \in 1..Len(s) : \A u \in SubsetTopics \ Range(s) : n[s[i]] >= n[u]

\* C7: for k = 6 and k = 10 the top-k list has min(k, number of topics of
\* the subset) entries, all topics of the subset, in non-increasing order of
\* count, each with at least as many records as every unlisted topic.
TopListsAreTopK ==
    LET n == SubsetCounts
    IN  /\ \A s \in TopTopics(df_filt) : IsTopK(s, TopN, n)
        /\ \A s \in TopTopicsDf(df_filt) :
               /\ IsTopK([i \in 1..Len(s) |-> s[i].topic_name], TopTable, n)
               /\ \A i \in 1..Len(s) : s[i].count = n[s[i].topic_name]

\* C7 witness: a subset with more topics than the longer list keeps, two
\* of them tied at its cut
TruncatedTopListReached ==
    /\ Cardinality(SubsetTopics) > TopTable
    /\ Cardinality(TopTopicsDf(df_filt)) >= 2

\* number of records of the subset with date dt and topic t
NDateTopic(dt, t) == Cardinality({i \in 1..Len(df_filt) :
                         df_filt[i].date = dt /\ df_filt[i].topic_name = t})

\* dates with a record in the subset
SubsetDates == {df_filt[i].date : i \in 1..Len(df_filt)}

\* C8: the time series has the entry (date, topic, n) exactly when topic is
\* one of the top 6 topics and n > 0 records of the subset have that date
\* and topic; the other topics contribute nothing, so the entries sum to
\* the number of records whose topic is among the top 6.
TimeSeriesIsTopSixOnly ==
    \A top \in TopTopics(df_filt) :
        /\ TimeDf(df_filt, top) =
               { [date |-> dt, topic_name |-> t, n_articles |-> NDateTopic(dt, t)] :
                 <<dt, t>> \in {k \in SubsetDates \X Range(top) : NDateTopic(k[1], k[2]) > 0} }
        /\ SumArticles(TimeDf(df_filt, top)) =
               Cardinality({i \in 1..Len(df_filt) : df_filt[i].topic_name \in Range(top)})

\* C8 witness: a subset with more than 6 topics, so that records of a topic
\* outside the top 6 are left out of the series
TopicsDroppedFromSeriesReached ==
    /\ Cardinality(SubsetTopics) > TopN
    /\ \E top \in TopTopics(df_filt) :
           SumArticles(TimeDf(df_filt, top)) < Len(df_filt)

=============================================================================
